---- MODULE Spec2Model ----
(***************************************************************************)
(* Multi-backend orchestration of OpenClaw-On-Pi: ProviderManager          *)
(* (src/src/llm/provider_manager.py), RateLimiter                           *)
(* (src/src/llm/rate_limiter.py) and the health bookkeeping of BaseProvider *)
(* (src/src/llm/base_provider.py) with its vendor subclasses.               *)
(*                                                                         *)
(* Time is the wall clock in whole seconds.  One action runs a coroutine    *)
(* from one suspension point (an await on the vendor call, a yield to the   *)
(* consumer) to the next.                                                   *)
(***************************************************************************)
EXTENDS Integers, Sequences, FiniteSets, TLC

VARIABLES providers, priority_order, user_preferences, is_healthy,
          error_count, last_error, default_model, available_models, http_thread,
          limits, usage, now, failing, calls, ret, recorded

vars == <<providers, priority_order, user_preferences, is_healthy,
          error_count, last_error, default_model, available_models, http_thread,
          limits, usage, now, failing, calls, ret, recorded>>

(***************************************************************************)
(* Bounds of the model.                                                    *)
(***************************************************************************)
MaxTime == 62
MaxRecorded == 2
MaxRpm == 3
MaxTokens == 2
MaxChunks == 2
MaxErrors == 3
MaxFailedChecks == 1

(***************************************************************************)
(* Program constants and value spaces.                                     *)
(***************************************************************************)
None == "None"
Names == {"groq", "ollama_cloud", "ollama_local"}
RegistrationOrder == <<"groq", "ollama_cloud", "ollama_local">>
Users == {1}
NoUser == 0
CallIds == {1}
Window == 60
ThresholdNum == 4
ThresholdDen == 5
TickSteps == {30, 31}
LimiterNames == {"groq"}
ErrorKinds == {"rateLimit", "unknown"}
ResponseTokens == {0, 2}
Models == {"m1", "m2", "m3"}
ConfiguredModels == {"m1", "m2"}

(***************************************************************************)
(* Sequence helpers.                                                       *)
(***************************************************************************)
Range(s) == {s[i] : i \in 1..Len(s)}

Contains(s, x) == \E i \in 1..Len(s) : s[i] = x

RECURSIVE SumTokens(_)
SumTokens(s) == IF s = <<>> THEN 0 ELSE Head(s)[2] + SumTokens(Tail(s))

\* list.remove(x): drops the first occurrence of x.
Remove(s, x) ==
    LET i == CHOOSE k \in 1..Len(s) : s[k] = x /\ \A j \in 1..(k - 1) : s[j] # x
    IN  SubSeq(s, 1, i - 1) \o SubSeq(s, i + 1, Len(s))

(***************************************************************************)
(* RateLimiter                                                             *)
(***************************************************************************)
UsageWindow == [requests |-> <<>>, tokens |-> <<>>]

\* The comparison of _clean_window: an entry stamped t survives a prune at
\* time n iff t > n - 1 minute.
InWindowStale(t, n) == t >= n - Window

InWindow(t, n) == t > n - Window

CleanWindow(u, p, n) ==
    IF p \notin DOMAIN u THEN u
    ELSE [u EXCEPT ![p] =
            [requests |-> SelectSeq(@.requests, LAMBDA t : InWindow(t, n)),
             tokens   |-> SelectSeq(@.tokens, LAMBDA e : InWindow(e[1], n))]]

WindowOf(u, p) == IF p \in DOMAIN u THEN u[p] ELSE UsageWindow

\* How many request entries a prune at time n drops from the window of p.
Dropped(u, p, n) ==
    Len(WindowOf(u, p).requests) - Len(WindowOf(CleanWindow(u, p, n), p).requests)

\* The request-count test of can_request / can_request_tokens.
RequestLimitHitOffByOne(count, rpm) == count > rpm

RequestLimitHit(count, rpm) == count >= rpm

\* can_request: the answer and the limiter state it leaves (the prune).
CanRequestVal(u, p, n) ==
    IF p \notin DOMAIN limits THEN TRUE
    ELSE ~RequestLimitHit(Len(WindowOf(CleanWindow(u, p, n), p).requests),
                           limits[p].requests_per_minute)

CanRequestUsage(u, p, n) ==
    IF p \notin DOMAIN limits THEN u ELSE CleanWindow(u, p, n)

CanRequestTokensVal(u, p, tokens, n) ==
    IF p \notin DOMAIN limits THEN TRUE
    ELSE LET w == WindowOf(CleanWindow(u, p, n), p)
         IN  /\ ~RequestLimitHit(Len(w.requests), limits[p].requests_per_minute)
             /\ ~(SumTokens(w.tokens) + tokens > limits[p].tokens_per_minute)

\* record_request: append, then prune.
RecordRequestUsageLastOnly(u, p, tokens, n) ==
    LET u1 == IF p \in DOMAIN u THEN u
              ELSE [q \in (DOMAIN u) \cup {p} |->
                       IF q = p THEN UsageWindow ELSE u[q]]
        u2 == [u1 EXCEPT ![p].requests = Append(@, n)]
        u3 == IF tokens > 0
              THEN [u2 EXCEPT ![p].tokens = <<<<n, tokens>>>>]
              ELSE u2
    IN  CleanWindow(u3, p, n)

RecordRequestUsage(u, p, tokens, n) ==
    LET u1 == IF p \in DOMAIN u THEN u
              ELSE [q \in (DOMAIN u) \cup {p} |->
                       IF q = p THEN UsageWindow ELSE u[q]]
        u2 == [u1 EXCEPT ![p].requests = Append(@, n)]
        u3 == IF tokens > 0
              THEN [u2 EXCEPT ![p].tokens = Append(@, <<n, tokens>>)]
              ELSE u2
    IN  CleanWindow(u3, p, n)

\* get_usage_percentage: each fraction is the pair <<numerator, denominator>>.
UsagePercentage(u, p, n) ==
    IF p \notin DOMAIN limits THEN [rpm |-> <<0, 1>>, tpm |-> <<0, 1>>]
    ELSE LET w == WindowOf(CleanWindow(u, p, n), p)
         IN  [rpm |-> IF limits[p].requests_per_minute > 0
                      THEN <<Len(w.requests), limits[p].requests_per_minute>>
                      ELSE <<0, 1>>,
              tpm |-> IF limits[p].tokens_per_minute > 0
                      THEN <<SumTokens(w.tokens), limits[p].tokens_per_minute>>
                      ELSE <<0, 1>>]

CurrentUsage(u, p, n) ==
    LET w == WindowOf(CleanWindow(u, p, n), p)
    IN  [requests |-> Len(w.requests), tokens |-> SumTokens(w.tokens)]

\* fraction >= threshold, with threshold = num/den.
AtLeastStrict(frac, num, den) == frac[1] * den > num * frac[2]

AtLeast(frac, num, den) == frac[1] * den >= num * frac[2]

ShouldFailoverVal(u, p, n) ==
    LET pct == UsagePercentage(u, p, n)
    IN  AtLeast(pct.rpm, ThresholdNum, ThresholdDen)
        \/ AtLeast(pct.tpm, ThresholdNum, ThresholdDen)

(***************************************************************************)
(* Reference window: for each backend the record_request calls made less   *)
(* than 60 seconds ago, as <<time, tokens>>.  It is kept exact by dropping  *)
(* an entry the moment the clock makes it 60 seconds old, independently of  *)
(* the lazily pruned UsageWindow of the limiter.                            *)
(***************************************************************************)
Log(rec, p, tokens, n) == [rec EXCEPT ![p] = Append(@, <<n, tokens>>)]

Aged(rec, n) ==
    [p \in DOMAIN rec |-> SelectSeq(rec[p], LAMBDA e : n - e[1] < Window)]

RecentRequests(p) == Len(recorded[p])

RecentTokens(p) == SumTokens(recorded[p])

(***************************************************************************)
(* Initial states.                                                         *)
(***************************************************************************)
\* ret: the operation last called synchronously and the value it returned.
\* at is the time of the return; pruned is the number of request entries the
\* operation dropped from the window it looked at.
NoRet == [op |-> None, arg |-> None, val |-> None, at |-> 0, pruned |-> 0]

Returned(op, arg, val, k) ==
    [op |-> op, arg |-> arg, val |-> val, at |-> now, pruned |-> k]

NoError == [kind |-> None, provider |-> None]

\* The dashboard's HTTP thread: idle, or inside set_active_provider between
\* the removal of the name and its insertion at the front.
IdleThread == [pc |-> "idle", name |-> None]

NoOutcome == [type |-> None, provider |-> None, tokens |-> 0, error |-> NoError]

\* One failover call: its position (pc), its locals (order, idx, tried,
\* last_error, the candidate being awaited) and what the caller has seen of
\* it so far (the chunks yielded, the outcome).  called lists the backends
\* whose generate/stream was invoked by this call and has ended, raised the
\* errors those invocations raised, in order.  before is the usage the
\* limiter held when the call was made.
IdleCall ==
    [pc |-> "idle", kind |-> None, user |-> NoUser, order |-> <<>>, idx |-> 0,
     tried |-> <<>>, called |-> <<>>, raised |-> <<>>,
     last_error |-> NoError, before |-> [p \in {} |-> UsageWindow],
     current |-> None, chunks |-> 0, yielded |-> <<>>, outcome |-> NoOutcome]

InitCommon ==
    /\ user_preferences = [c \in {} |-> None]
    /\ is_healthy = [p \in Range(providers) |-> TRUE]
    /\ error_count = [p \in Range(providers) |-> 0]
    /\ last_error = [p \in Range(providers) |-> None]
    /\ default_model = [p \in Range(providers) |-> "m1"]
    /\ available_models = [p \in Range(providers) |-> ConfiguredModels]
    /\ http_thread = IdleThread
    /\ usage = [p \in DOMAIN limits |-> UsageWindow]
    /\ now = 0
    /\ failing = {}
    /\ calls = [c \in CallIds |-> IdleCall]
    /\ ret = NoRet
    /\ recorded = [p \in Names |-> <<>>]

\* The limiter alone, for any configured limits.
InitLimiter ==
    /\ providers = RegistrationOrder
    /\ priority_order = RegistrationOrder
    /\ \E r \in 0..MaxRpm, t \in 0..MaxTokens :
          limits = [p \in Names |->
                      IF p = "groq"
                      THEN [requests_per_minute |-> r, tokens_per_minute |-> t]
                      ELSE [requests_per_minute |-> MaxRpm,
                            tokens_per_minute |-> MaxTokens]]
    /\ InitCommon

\* main.py: every configured backend gets a RateLimitConfig; the enabled ones
\* are registered in a fixed order; the priority order is the configured
\* names sorted by their configured priority (here groq, ollama_cloud,
\* ollama_local, the order of DEFAULT_PRIORITY).
EnabledSets == {<<"groq", "ollama_cloud", "ollama_local">>,
                <<"groq", "ollama_local">>,
                <<"ollama_cloud">>}

Init ==
    /\ providers \in EnabledSets
    /\ priority_order = RegistrationOrder
    /\ limits = [p \in Names |->
                   [requests_per_minute |-> IF p = "groq" THEN 2 ELSE 1,
                    tokens_per_minute |-> 2]]
    /\ InitCommon

(***************************************************************************)
(* The clock.                                                              *)
(***************************************************************************)
Tick(d) ==
    /\ now + d <= MaxTime
    /\ now' = now + d
    /\ recorded' = Aged(recorded, now + d)
    /\ UNCHANGED <<providers, priority_order, user_preferences, is_healthy,
                   error_count, last_error, default_model, available_models, http_thread, limits, usage, failing, calls, ret>>

(***************************************************************************)
(* RateLimiter operations called directly (quota commands, dashboard).     *)
(***************************************************************************)
mgrUnchanged == <<providers, priority_order, user_preferences, is_healthy,
                  error_count, last_error, default_model, available_models, http_thread, limits, failing, calls>>

CanRequest(p) ==
    /\ ret' = Returned("can_request", p,
                     CanRequestVal(usage, p, now), Dropped(usage, p, now))
    /\ usage' = CanRequestUsage(usage, p, now)
    /\ UNCHANGED <<mgrUnchanged, now, recorded>>

CanRequestTokens(p, tokens) ==
    /\ ret' = Returned("can_request_tokens", <<p, tokens>>,
                     CanRequestTokensVal(usage, p, tokens, now), Dropped(usage, p, now))
    /\ usage' = CanRequestUsage(usage, p, now)
    /\ UNCHANGED <<mgrUnchanged, now, recorded>>

DoRecordRequest(p, tokens) ==
    /\ usage' = RecordRequestUsage(usage, p, tokens, now)
    /\ recorded' = Log(recorded, p, tokens, now)
    /\ ret' = Returned("record_request", <<p, tokens>>, None, 0)
    /\ UNCHANGED <<mgrUnchanged, now>>

RecordRequest(p, tokens) ==
    /\ Len(recorded[p]) < MaxRecorded
    /\ DoRecordRequest(p, tokens)

GetUsagePercentage(p) ==
    /\ ret' = Returned("get_usage_percentage", p,
                     UsagePercentage(usage, p, now), Dropped(usage, p, now))
    /\ usage' = CanRequestUsage(usage, p, now)
    /\ UNCHANGED <<mgrUnchanged, now, recorded>>

GetCurrentUsage(p) ==
    /\ ret' = Returned("get_current_usage", p,
                     CurrentUsage(usage, p, now), Dropped(usage, p, now))
    /\ usage' = CleanWindow(usage, p, now)
    /\ UNCHANGED <<mgrUnchanged, now, recorded>>

ShouldFailover(p) ==
    /\ ret' = Returned("should_failover", p,
                     ShouldFailoverVal(usage, p, now), Dropped(usage, p, now))
    /\ usage' = CanRequestUsage(usage, p, now)
    /\ UNCHANGED <<mgrUnchanged, now, recorded>>

\* A client that sends only when allowed: record_request follows a
\* can_request that has just answered true.
RecordAllowed(p) ==
    /\ ret.op = "can_request"
    /\ ret.arg = p
    /\ ret.val = TRUE
    /\ DoRecordRequest(p, 0)

NextLimiter ==
    \/ \E d \in TickSteps : Tick(d)
    \/ \E p \in LimiterNames : CanRequest(p)
    \/ \E p \in LimiterNames, n \in 0..MaxTokens : CanRequestTokens(p, n)
    \/ \E p \in LimiterNames, n \in 0..MaxTokens : RecordRequest(p, n)
    \/ \E p \in LimiterNames : GetUsagePercentage(p)
    \/ \E p \in LimiterNames : GetCurrentUsage(p)
    \/ \E p \in LimiterNames : ShouldFailover(p)

SpecLimiter == InitLimiter /\ [][NextLimiter]_vars

NextGated ==
    \/ \E d \in TickSteps : Tick(d)
    \/ \E p \in LimiterNames : CanRequest(p)
    \/ \E p \in LimiterNames : RecordAllowed(p)

SpecGated == InitLimiter /\ [][NextGated]_vars

\* should_failover with an explicit threshold num/den.
ShouldFailoverAt(u, p, n, num, den) ==
    LET pct == UsagePercentage(u, p, n)
    IN  AtLeast(pct.rpm, num, den) \/ AtLeast(pct.tpm, num, den)

ShouldFailoverWith(p, th) ==
    /\ ret' = Returned("should_failover_with", <<p, th>>,
                     ShouldFailoverAt(usage, p, now, th[1], th[2]),
                     Dropped(usage, p, now))
    /\ usage' = CanRequestUsage(usage, p, now)
    /\ UNCHANGED <<mgrUnchanged, now, recorded>>

\* The limiter with limits of which 80% is a whole number, so that usage can
\* sit exactly on the default threshold.
Thresholds == {<<1, 2>>, <<4, 5>>, <<1, 1>>}

ThresholdTokens == {0, 1, 3}

InitThreshold ==
    /\ providers = RegistrationOrder
    /\ priority_order = RegistrationOrder
    /\ \E r \in {0, 2}, t \in {0, 5} :
          limits = [p \in Names |->
                      IF p = "groq"
                      THEN [requests_per_minute |-> r, tokens_per_minute |-> t]
                      ELSE [requests_per_minute |-> MaxRpm,
                            tokens_per_minute |-> MaxTokens]]
    /\ InitCommon

NextThreshold ==
    \/ \E d \in TickSteps : Tick(d)
    \/ \E p \in LimiterNames, n \in ThresholdTokens : RecordRequest(p, n)
    \/ \E p \in LimiterNames : ShouldFailover(p)
    \/ \E p \in LimiterNames, th \in Thresholds : ShouldFailoverWith(p, th)

SpecThreshold == InitThreshold /\ [][NextThreshold]_vars

\* get_wait_time: seconds until the oldest entry of the stored request list
\* is a minute old, never negative; the stored window is left as it is.
MinOf(s) == CHOOSE x \in Range(s) : \A y \in Range(s) : x <= y

GetWaitTimeVal(u, p, n) ==
    IF p \notin DOMAIN u THEN 0
    ELSE IF u[p].requests = <<>> THEN 0
    ELSE LET remaining == MinOf(u[p].requests) + Window - n
         IN  IF remaining > 0 THEN remaining ELSE 0

GetWaitTime(p) ==
    /\ ret' = Returned("get_wait_time", p, GetWaitTimeVal(usage, p, now), 0)
    /\ UNCHANGED <<mgrUnchanged, usage, now, recorded>>

NextWait ==
    \/ \E d \in TickSteps : Tick(d)
    \/ \E p \in LimiterNames : RecordRequest(p, 0)
    \/ \E p \in LimiterNames : CanRequest(p)
    \/ \E p \in LimiterNames : GetWaitTime(p)

SpecWait == InitLimiter /\ [][NextWait]_vars

(***************************************************************************)
(* BaseProvider health bookkeeping.                                        *)
(***************************************************************************)
\* mark_unhealthy(error): the flag, last_error and error_count.
MarkUnhealthy(h, p) == [h EXCEPT ![p] = FALSE]

RecordError(le, p, msg) == [le EXCEPT ![p] = msg]

CountError(ec, p) == [ec EXCEPT ![p] = @ + 1]

\* mark_healthy(): the flag, last_error and error_count.
MarkHealthy(h, p) == [h EXCEPT ![p] = TRUE]

ClearError(le, p) == [le EXCEPT ![p] = None]

KeepErrorCount(ec, p) == ec

ResetErrorCount(ec, p) == [ec EXCEPT ![p] = 0]

(***************************************************************************)
(* ProviderManager                                                         *)
(***************************************************************************)
Registered(name) == name \in Range(providers)

\* "user_id and user_id in self.user_preferences": NoUser stands for the
\* default user_id=None, which is falsy like 0.
HasPreference(uid) == uid # NoUser /\ uid \in DOMAIN user_preferences

GetProviderOrderIgnoringPreference(uid) == priority_order

GetProviderOrder(uid) ==
    IF HasPreference(uid) /\ Contains(priority_order, user_preferences[uid])
    THEN <<user_preferences[uid]>> \o Remove(priority_order, user_preferences[uid])
    ELSE priority_order

\* The test that lets an unhealthy candidate through.
AllButTwoTried(tried) == ~(Len(tried) < Len(providers) - 2)

AllOthersTried(tried) == ~(Len(tried) < Len(providers) - 1)

\* The failover loop from position i of the order up to its next suspension
\* point: either a candidate passed the health test and the quota gate
\* (stop = "call"), or the order is exhausted (stop = "exhausted").
RECURSIVE RunLoop(_, _, _, _, _)
RunLoop(order, i, tried, h, u) ==
    IF i > Len(order)
    THEN [stop |-> "exhausted", idx |-> i, tried |-> tried, usage |-> u,
          current |-> None]
    ELSE LET name == order[i] IN
         IF Contains(tried, name) THEN RunLoop(order, i + 1, tried, h, u)
         ELSE IF ~Registered(name) THEN RunLoop(order, i + 1, tried, h, u)
         ELSE IF ~h[name] /\ ~AllOthersTried(tried)
              THEN RunLoop(order, i + 1, tried, h, u)
         ELSE IF ~CanRequestVal(u, name, now)
              THEN RunLoop(order, i + 1, Append(tried, name), h,
                           CanRequestUsage(u, name, now))
         ELSE [stop |-> "call", idx |-> i, tried |-> Append(tried, name),
               usage |-> CanRequestUsage(u, name, now), current |-> name]

\* The handler clause "except Exception" of both failover loops.
CaughtOnlyRateLimit(e) == e.kind = "rateLimit"

Caught(e) == TRUE

\* "last_error = e" in the handler.
KeepFirstError(old, e) == IF old = NoError THEN e ELSE old

NewLastError(old, e) == e

AllFailed(err) ==
    [type |-> "AllProvidersFailedError", provider |-> None, tokens |-> 0,
     error |-> err]

\* The state of call c after its loop ran on from position i.
Continue(c, cl, i, h, u) ==
    LET r == RunLoop(cl.order, i, cl.tried, h, u) IN
    IF r.stop = "call"
    THEN IF cl.kind = "generate"
         THEN /\ calls' = [calls EXCEPT ![c] =
                    [cl EXCEPT !.pc = "await_generate", !.idx = r.idx,
                               !.tried = r.tried, !.current = r.current]]
              /\ usage' = r.usage
              /\ recorded' = recorded
         ELSE /\ calls' = [calls EXCEPT ![c] =
                    [cl EXCEPT !.pc = "streaming", !.idx = r.idx,
                               !.tried = r.tried, !.current = r.current,
                               !.chunks = 0]]
              /\ usage' = RecordRequestUsage(r.usage, r.current, 0, now)
              /\ recorded' = Log(recorded, r.current, 0, now)
    ELSE /\ calls' = [calls EXCEPT ![c] =
               [cl EXCEPT !.pc = "done", !.idx = r.idx, !.tried = r.tried,
                          !.current = None,
                          !.outcome = AllFailed(cl.last_error)]]
         /\ usage' = r.usage
         /\ recorded' = recorded

NoCallInFlight == \A c \in CallIds : calls[c].pc = "idle"

\* generate_with_failover / stream_with_failover up to the first await.
\* F is the set of backends whose calls fail while this request runs.
StartCall(c, kind, uid, F) ==
    /\ NoCallInFlight
    /\ F \subseteq Range(providers)
    /\ failing' = F
    /\ ret' = NoRet
    /\ Continue(c, [IdleCall EXCEPT !.kind = kind, !.user = uid,
                                    !.order = GetProviderOrder(uid),
                                    !.before = usage],
                1, is_healthy, usage)
    /\ UNCHANGED <<providers, priority_order, user_preferences, is_healthy,
                   error_count, last_error, default_model, available_models, http_thread, limits, now>>

StartGenerate(c, uid, F) == StartCall(c, "generate", uid, F)

StartStream(c, uid, F) == StartCall(c, "stream", uid, F)

\* A backend call of call c fails with error e: the backend marks itself
\* unhealthy and raises; the handler of the loop runs and the loop goes on.
CallFailed(c, e) ==
    LET cl == calls[c]
        p  == cl.current
        h  == MarkUnhealthy(is_healthy, p)
        le == RecordError(last_error, p, <<"backend", e.kind>>)
        ec == CountError(error_count, p)
    IN  /\ error_count[p] + 2 <= MaxErrors
        /\ UNCHANGED <<default_model, available_models, http_thread>>
        /\ IF Caught(e)
           THEN /\ is_healthy' = MarkUnhealthy(h, p)
                /\ last_error' = RecordError(le, p, e.kind)
                /\ error_count' = CountError(ec, p)
                /\ Continue(c, [cl EXCEPT !.last_error = NewLastError(@, e),
                                          !.called = Append(@, p),
                                          !.raised = Append(@, e)],
                            cl.idx + 1, is_healthy', usage)
           ELSE /\ is_healthy' = h
                /\ last_error' = le
                /\ error_count' = ec
                /\ calls' = [calls EXCEPT ![c] =
                      [cl EXCEPT !.pc = "done",
                                 !.called = Append(@, p),
                                 !.raised = Append(@, e),
                                 !.outcome = [type |-> "BackendError",
                                              provider |-> p,
                                              tokens |-> 0, error |-> e]]]
                /\ UNCHANGED <<usage, recorded>>

\* await provider.generate(...) returns a response with the given tokens.
GenerateReturnsNoTokens(c, tokens) ==
    LET cl == calls[c] IN
    /\ cl.pc = "await_generate"
    /\ cl.current \notin failing
    /\ is_healthy' = MarkHealthy(is_healthy, cl.current)
    /\ last_error' = ClearError(last_error, cl.current)
    /\ error_count' = ResetErrorCount(error_count, cl.current)
    /\ UNCHANGED <<default_model, available_models, http_thread>>
    /\ usage' = RecordRequestUsage(usage, cl.current, 0, now)
    /\ recorded' = Log(recorded, cl.current, 0, now)
    /\ calls' = [calls EXCEPT ![c] =
          [cl EXCEPT !.pc = "done", !.called = Append(@, cl.current),
                     !.outcome = [type |-> "response", provider |-> cl.current,
                                  tokens |-> tokens, error |-> NoError]]]
    /\ UNCHANGED <<providers, priority_order, user_preferences, limits, now,
                   failing, ret>>

GenerateReturns(c, tokens) ==
    LET cl == calls[c] IN
    /\ cl.pc = "await_generate"
    /\ cl.current \notin failing
    /\ is_healthy' = MarkHealthy(is_healthy, cl.current)
    /\ last_error' = ClearError(last_error, cl.current)
    /\ error_count' = ResetErrorCount(error_count, cl.current)
    /\ UNCHANGED <<default_model, available_models, http_thread>>
    /\ usage' = RecordRequestUsage(usage, cl.current, tokens, now)
    /\ recorded' = Log(recorded, cl.current, tokens, now)
    /\ calls' = [calls EXCEPT ![c] =
          [cl EXCEPT !.pc = "done", !.called = Append(@, cl.current),
                     !.outcome = [type |-> "response", provider |-> cl.current,
                                  tokens |-> tokens, error |-> NoError]]]
    /\ UNCHANGED <<providers, priority_order, user_preferences, limits, now,
                   failing, ret>>

\* await provider.generate(...) raises.
GenerateRaises(c, k) ==
    /\ calls[c].pc = "await_generate"
    /\ calls[c].current \in failing
    /\ CallFailed(c, [kind |-> k, provider |-> calls[c].current])
    /\ UNCHANGED <<providers, priority_order, user_preferences, limits, now,
                   failing, ret>>

\* provider.stream(...) delivers a chunk, which is yielded to the caller.
StreamChunk(c) ==
    LET cl == calls[c] IN
    /\ cl.pc = "streaming"
    /\ cl.chunks < MaxChunks
    /\ calls' = [calls EXCEPT ![c] =
          [cl EXCEPT !.chunks = @ + 1, !.yielded = Append(@, cl.current)]]
    /\ UNCHANGED <<providers, priority_order, user_preferences, is_healthy,
                   error_count, last_error, default_model, available_models, http_thread, limits, usage, now, failing, ret,
                   recorded>>

\* provider.stream(...) ends normally: the stream call returns.
StreamEnds(c) ==
    LET cl == calls[c] IN
    /\ cl.pc = "streaming"
    /\ cl.current \notin failing
    /\ is_healthy' = MarkHealthy(is_healthy, cl.current)
    /\ last_error' = ClearError(last_error, cl.current)
    /\ error_count' = ResetErrorCount(error_count, cl.current)
    /\ UNCHANGED <<default_model, available_models, http_thread>>
    /\ calls' = [calls EXCEPT ![c] =
          [cl EXCEPT !.pc = "done", !.called = Append(@, cl.current),
                     !.outcome = [type |-> "stream_end", provider |-> cl.current,
                                  tokens |-> 0, error |-> NoError]]]
    /\ UNCHANGED <<providers, priority_order, user_preferences, limits, usage,
                   now, failing, ret, recorded>>

\* provider.stream(...) raises, before the first chunk or after some chunks.
StreamRaises(c, k) ==
    /\ calls[c].pc = "streaming"
    /\ calls[c].current \in failing
    /\ CallFailed(c, [kind |-> k, provider |-> calls[c].current])
    /\ UNCHANGED <<providers, priority_order, user_preferences, limits, now,
                   failing, ret>>

\* The caller cancels the stream: it closes the generator (GeneratorExit is
\* raised at the yield) or its task is cancelled (CancelledError is raised at
\* the await).  Both are BaseException, not Exception.
Cancellation == "cancelled"

IsExceptionOrCancellation(kind) == TRUE

IsException(kind) == kind \in ErrorKinds

StreamCancelled(c) ==
    LET cl == calls[c] IN
    /\ cl.pc = "streaming"
    /\ ret' = Returned("aclose", c, None, 0)
    /\ IF IsException(Cancellation)
       THEN CallFailed(c, [kind |-> Cancellation, provider |-> cl.current])
       ELSE /\ calls' = [calls EXCEPT ![c] =
                  [cl EXCEPT !.pc = "done",
                             !.outcome = [type |-> "cancelled",
                                          provider |-> cl.current,
                                          tokens |-> 0, error |-> NoError]]]
            /\ UNCHANGED <<is_healthy, error_count, last_error, default_model,
                           available_models, http_thread, usage, recorded>>
    /\ UNCHANGED <<providers, priority_order, user_preferences, limits, now,
                   failing>>

\* The call is over: the caller has its response, its end of stream or its
\* exception.
ReturnToCaller(c) ==
    /\ calls[c].pc = "done"
    /\ calls' = [calls EXCEPT ![c] = IdleCall]
    /\ failing' = {}
    /\ UNCHANGED <<providers, priority_order, user_preferences, is_healthy,
                   error_count, last_error, default_model, available_models, http_thread, limits, usage, now, ret, recorded>>

\* provider.health_check() of one backend, with its outcome.
HealthCheckFinds(p, ok, found) ==
    /\ Registered(p)
    /\ NoCallInFlight
    /\ ok \/ error_count[p] < MaxFailedChecks
    /\ is_healthy' = IF ok THEN MarkHealthy(is_healthy, p)
                     ELSE MarkUnhealthy(is_healthy, p)
    /\ last_error' = IF ok THEN ClearError(last_error, p)
                     ELSE RecordError(last_error, p, "health_check")
    /\ error_count' = IF ok THEN ResetErrorCount(error_count, p)
                      ELSE CountError(error_count, p)
    /\ available_models' = IF ok /\ p = "ollama_local"
                           THEN [available_models EXCEPT ![p] = found]
                           ELSE available_models
    /\ ret' = Returned("health_check", p,
                     ok, 0)
    /\ UNCHANGED <<providers, priority_order, user_preferences, limits, usage,
                   now, failing, calls, recorded, default_model, http_thread>>

\* A health check that finds the model list it already knows.
HealthCheck(p, ok) == HealthCheckFinds(p, ok, available_models[p])

\* BaseProvider.set_model and ProviderManager.set_provider_model.
SetModelAlwaysOk(p, m) == TRUE

SetModelOk(p, m) == m \in available_models[p]

SetModel(p, m) ==
    /\ Registered(p)
    /\ NoCallInFlight
    /\ ret' = Returned("set_model", <<p, m>>, SetModelOk(p, m), 0)
    /\ default_model' = IF SetModelOk(p, m)
                        THEN [default_model EXCEPT ![p] = m]
                        ELSE default_model
    /\ UNCHANGED <<providers, priority_order, user_preferences, is_healthy,
                   error_count, last_error, available_models, http_thread, limits,
                   usage,
                   now, failing, calls, recorded>>

SetProviderModel(name, m) ==
    /\ NoCallInFlight
    /\ IF ~Registered(name)
       THEN /\ ret' = Returned("set_provider_model", <<name, m>>, FALSE, 0)
            /\ UNCHANGED default_model
       ELSE /\ ret' = Returned("set_provider_model", <<name, m>>,
                              SetModelOk(name, m), 0)
            /\ default_model' = IF SetModelOk(name, m)
                                THEN [default_model EXCEPT ![name] = m]
                                ELSE default_model
    /\ UNCHANGED <<providers, priority_order, user_preferences, is_healthy,
                   error_count, last_error, available_models, http_thread, limits,
                   usage,
                   now, failing, calls, recorded>>

\* get_provider: the preferred backend if usable, else the first usable one
\* in priority order, else any healthy one in registration order.
Usable(name) ==
    /\ Registered(name)
    /\ is_healthy[name]
    /\ ~ShouldFailoverVal(usage, name, now)

FirstWhere(s, S) ==
    IF \E i \in 1..Len(s) : s[i] \in S
    THEN s[CHOOSE i \in 1..Len(s) : s[i] \in S /\ \A j \in 1..(i - 1) : s[j] \notin S]
    ELSE None

IsHealthyName(name) == Registered(name) /\ is_healthy[name]

GetProviderIgnoringQuota(uid) ==
    IF HasPreference(uid) /\ IsHealthyName(user_preferences[uid])
    THEN user_preferences[uid]
    ELSE FirstWhere(priority_order, {x \in Names : IsHealthyName(x)})

GetProviderStickyPreference(uid) ==
    IF HasPreference(uid) /\ Registered(user_preferences[uid])
    THEN user_preferences[uid]
    ELSE IF FirstWhere(priority_order, {x \in Names : Usable(x)}) # None
         THEN FirstWhere(priority_order, {x \in Names : Usable(x)})
         ELSE FirstWhere(providers, {x \in Names : IsHealthyName(x)})

GetProviderHealthyPreference(uid) ==
    IF HasPreference(uid) /\ IsHealthyName(user_preferences[uid])
    THEN user_preferences[uid]
    ELSE IF FirstWhere(priority_order, {x \in Names : Usable(x)}) # None
         THEN FirstWhere(priority_order, {x \in Names : Usable(x)})
         ELSE FirstWhere(providers, {x \in Names : IsHealthyName(x)})

GetProviderVal(uid) ==
    IF HasPreference(uid) /\ Usable(user_preferences[uid])
    THEN user_preferences[uid]
    ELSE IF FirstWhere(priority_order, {x \in Names : Usable(x)}) # None
         THEN FirstWhere(priority_order, {x \in Names : Usable(x)})
         ELSE FirstWhere(providers, {x \in Names : IsHealthyName(x)})

\* should_failover prunes the window of every healthy backend it is asked
\* about before get_provider returns.
RECURSIVE CleanAll(_, _, _)
CleanAll(u, S, n) ==
    IF S = {} THEN u
    ELSE LET p == CHOOSE x \in S : TRUE
         IN  CleanAll(CleanWindow(u, p, n), S \ {p}, n)

GetProviderAsked(uid) ==
    LET pref == IF HasPreference(uid) /\ IsHealthyName(user_preferences[uid])
                THEN {user_preferences[uid]} ELSE {}
        hit  == HasPreference(uid) /\ Usable(user_preferences[uid])
        last == IF \E i \in 1..Len(priority_order) : Usable(priority_order[i])
                THEN CHOOSE i \in 1..Len(priority_order) :
                        /\ Usable(priority_order[i])
                        /\ \A j \in 1..(i - 1) : ~Usable(priority_order[j])
                ELSE Len(priority_order)
    IN  IF hit THEN pref
        ELSE pref \cup {priority_order[i] : i \in
                 {j \in 1..last : IsHealthyName(priority_order[j])}}

GetProvider(uid) ==
    /\ NoCallInFlight
    /\ ret' = Returned("get_provider", uid,
                     GetProviderVal(uid), 0)
    /\ usage' = CleanAll(usage, GetProviderAsked(uid), now)
    /\ UNCHANGED <<providers, priority_order, user_preferences, is_healthy,
                   error_count, last_error, default_model, available_models, http_thread, limits, now, failing, calls,
                   recorded>>

SetUserPreferenceUnchecked(uid, name) ==
    /\ NoCallInFlight
    /\ ret' = Returned("set_user_preference", <<uid, name>>,
                     Registered(name), 0)
    /\ user_preferences' =
          [c \in (DOMAIN user_preferences) \cup {uid} |->
              IF c = uid THEN name ELSE user_preferences[c]]
    /\ UNCHANGED <<providers, priority_order, is_healthy, error_count,
                   last_error, default_model, available_models, http_thread, limits, usage, now, failing, calls, recorded>>

SetUserPreference(uid, name) ==
    /\ NoCallInFlight
    /\ IF ~Registered(name)
       THEN /\ ret' = Returned("set_user_preference", <<uid, name>>,
                     FALSE, 0)
            /\ UNCHANGED user_preferences
       ELSE /\ ret' = Returned("set_user_preference", <<uid, name>>,
                     TRUE, 0)
            /\ user_preferences' =
                  [c \in (DOMAIN user_preferences) \cup {uid} |->
                      IF c = uid THEN name ELSE user_preferences[c]]
    /\ UNCHANGED <<providers, priority_order, is_healthy, error_count,
                   last_error, default_model, available_models, http_thread, limits, usage, now, failing, calls, recorded>>

ClearUserPreference(uid) ==
    /\ NoCallInFlight
    /\ user_preferences' =
          [c \in (DOMAIN user_preferences) \ {uid} |-> user_preferences[c]]
    /\ ret' = Returned("clear_user_preference", uid,
                     None, 0)
    /\ UNCHANGED <<providers, priority_order, is_healthy, error_count,
                   last_error, default_model, available_models, http_thread, limits, usage, now, failing, calls, recorded>>

SetActiveProviderNoRemove(name) ==
    /\ NoCallInFlight
    /\ IF ~Registered(name)
       THEN /\ ret' = Returned("set_active_provider", name,
                     FALSE, 0)
            /\ UNCHANGED priority_order
       ELSE /\ ret' = Returned("set_active_provider", name,
                     TRUE, 0)
            /\ priority_order' = <<name>> \o priority_order
    /\ UNCHANGED <<providers, user_preferences, is_healthy, error_count,
                   last_error, default_model, available_models, http_thread, limits, usage, now, failing, calls, recorded>>

SetActiveProvider(name) ==
    /\ NoCallInFlight
    /\ IF ~Registered(name)
       THEN /\ ret' = Returned("set_active_provider", name,
                     FALSE, 0)
            /\ UNCHANGED priority_order
       ELSE /\ ret' = Returned("set_active_provider", name,
                     TRUE, 0)
            /\ priority_order' =
                  <<name>> \o (IF Contains(priority_order, name)
                               THEN Remove(priority_order, name)
                               ELSE priority_order)
    /\ UNCHANGED <<providers, user_preferences, is_healthy, error_count,
                   last_error, default_model, available_models, http_thread, limits, usage, now, failing, calls, recorded>>

Next ==
    \/ \E c \in CallIds, uid \in Users \cup {NoUser}, F \in SUBSET Names :
          StartGenerate(c, uid, F)
    \/ \E c \in CallIds, t \in ResponseTokens : GenerateReturns(c, t)
    \/ \E c \in CallIds, k \in ErrorKinds : GenerateRaises(c, k)
    \/ \E c \in CallIds, uid \in Users \cup {NoUser}, F \in SUBSET Names :
          StartStream(c, uid, F)
    \/ \E c \in CallIds : StreamChunk(c)
    \/ \E c \in CallIds : StreamEnds(c)
    \/ \E c \in CallIds, k \in ErrorKinds : StreamRaises(c, k)
    \/ \E c \in CallIds : ReturnToCaller(c)
    \/ \E uid \in Users, p \in Names : SetUserPreference(uid, p)

Spec == Init /\ [][Next]_vars

NextSelect ==
    \/ \E p \in Names : RecordRequest(p, MaxTokens)
    \/ \E p \in Names, ok \in BOOLEAN : HealthCheck(p, ok)
    \/ \E uid \in Users \cup {NoUser} : GetProvider(uid)
    \/ \E uid \in Users, p \in Names : SetUserPreference(uid, p)
    \/ \E uid \in Users : ClearUserPreference(uid)
    \/ \E p \in Names : SetActiveProvider(p)

SpecSelect == Init /\ [][NextSelect]_vars

\* get_active_provider: the first registered name of the priority order.
GetActiveProviderVal ==
    IF FirstWhere(priority_order, Range(providers)) # None
    THEN FirstWhere(priority_order, Range(providers))
    ELSE IF providers # <<>> THEN providers[1] ELSE ""

\* The administrative commands alone, for two callers.
Callers == {1, 2}

NextAdmin ==
    \/ \E p \in Names : SetActiveProvider(p)
    \/ \E uid \in Callers, p \in Names : SetUserPreference(uid, p)
    \/ \E uid \in Callers : ClearUserPreference(uid)

SpecAdmin == Init /\ [][NextAdmin]_vars

\* Model selection: the model lists a health check of the local backend can
\* discover, and the set_model commands.
DiscoveredModels == {{}, {"m2", "m3"}}

NextModels ==
    \/ \E p \in Names, m \in Models : SetModel(p, m)
    \/ \E p \in Names, m \in Models : SetProviderModel(p, m)
    \/ \E p \in Names, found \in DiscoveredModels :
          HealthCheckFinds(p, TRUE, found)

SpecModels == Init /\ [][NextModels]_vars

\* Streaming calls that the caller may cancel.
NextCancel ==
    \/ \E c \in CallIds, F \in SUBSET Names : StartStream(c, NoUser, F)
    \/ \E c \in CallIds : StreamChunk(c)
    \/ \E c \in CallIds : StreamEnds(c)
    \/ \E c \in CallIds, k \in ErrorKinds : StreamRaises(c, k)
    \/ \E c \in CallIds : StreamCancelled(c)
    \/ \E c \in CallIds : ReturnToCaller(c)

SpecCancel == Init /\ [][NextCancel]_vars

\* Requests, health checks and the clock together, for two registered
\* backends and callers without a preference.
InitHealth ==
    /\ providers = <<"groq", "ollama_local">>
    /\ priority_order = RegistrationOrder
    /\ limits = [p \in Names |->
                   [requests_per_minute |-> IF p = "groq" THEN 2 ELSE 1,
                    tokens_per_minute |-> 2]]
    /\ InitCommon

NextHealth ==
    \/ \E d \in TickSteps : Tick(d)
    \/ \E c \in CallIds, F \in SUBSET Names : StartGenerate(c, NoUser, F)
    \/ \E c \in CallIds, t \in ResponseTokens : GenerateReturns(c, t)
    \/ \E c \in CallIds, k \in ErrorKinds : GenerateRaises(c, k)
    \/ \E c \in CallIds, F \in SUBSET Names : StartStream(c, NoUser, F)
    \/ \E c \in CallIds : StreamChunk(c)
    \/ \E c \in CallIds : StreamEnds(c)
    \/ \E c \in CallIds, k \in ErrorKinds : StreamRaises(c, k)
    \/ \E c \in CallIds : ReturnToCaller(c)
    \/ \E p \in Names, ok \in BOOLEAN : HealthCheck(p, ok)

SpecHealth == InitHealth /\ [][NextHealth]_vars

\* Two requests in flight at once: the event loop runs another
\* generate_with_failover while one is suspended in its await.  No backend
\* fails here.
ConcurrentCallIds == {1, 2}

InitRace ==
    /\ providers = <<"groq", "ollama_local">>
    /\ priority_order = RegistrationOrder
    /\ limits = [p \in Names |->
                   [requests_per_minute |-> IF p = "groq" THEN 2 ELSE 1,
                    tokens_per_minute |-> 2]]
    /\ user_preferences = [c \in {} |-> None]
    /\ is_healthy = [p \in Range(providers) |-> TRUE]
    /\ error_count = [p \in Range(providers) |-> 0]
    /\ last_error = [p \in Range(providers) |-> None]
    /\ default_model = [p \in Range(providers) |-> "m1"]
    /\ available_models = [p \in Range(providers) |-> ConfiguredModels]
    /\ http_thread = IdleThread
    /\ usage = [p \in DOMAIN limits |-> UsageWindow]
    /\ now = 0
    /\ failing = {}
    /\ calls = [c \in ConcurrentCallIds |-> IdleCall]
    /\ ret = NoRet
    /\ recorded = [p \in Names |-> <<>>]

StartConcurrentGenerate(c) ==
    /\ calls[c].pc = "idle"
    /\ Continue(c, [IdleCall EXCEPT !.kind = "generate", !.user = NoUser,
                                    !.order = GetProviderOrder(NoUser),
                                    !.before = usage],
                1, is_healthy, usage)
    /\ UNCHANGED <<providers, priority_order, user_preferences, is_healthy,
                   error_count, last_error, default_model, available_models, http_thread, limits, now, failing, ret>>

NextRace ==
    \/ \E d \in TickSteps : Tick(d)
    \/ \E c \in ConcurrentCallIds : StartConcurrentGenerate(c)
    \/ \E c \in ConcurrentCallIds : GenerateReturns(c, 0)
    \/ \E c \in ConcurrentCallIds : ReturnToCaller(c)

SpecRace == InitRace /\ [][NextRace]_vars

\* Two streams in flight at once: the event loop runs another
\* stream_with_failover while one is suspended between two chunks.
StartConcurrentStream(c) ==
    /\ calls[c].pc = "idle"
    /\ Continue(c, [IdleCall EXCEPT !.kind = "stream", !.user = NoUser,
                                    !.order = GetProviderOrder(NoUser),
                                    !.before = usage],
                1, is_healthy, usage)
    /\ UNCHANGED <<providers, priority_order, user_preferences, is_healthy,
                   error_count, last_error, default_model, available_models, http_thread,
                   limits, now, failing, ret>>

NextStreamRace ==
    \/ \E d \in TickSteps : Tick(d)
    \/ \E c \in ConcurrentCallIds : StartConcurrentStream(c)
    \/ \E c \in ConcurrentCallIds : StreamChunk(c)
    \/ \E c \in ConcurrentCallIds : StreamEnds(c)
    \/ \E c \in ConcurrentCallIds : ReturnToCaller(c)

SpecStreamRace == InitRace /\ [][NextStreamRace]_vars

\* set_active_provider called by the dashboard's HTTP thread while the event
\* loop thread serves requests.  The interpreter can switch threads between
\* priority_order.remove(name) and priority_order.insert(0, name).
ThreadSetActiveRemove(name) ==
    /\ http_thread = IdleThread
    /\ IF ~Registered(name)
       THEN /\ ret' = Returned("set_active_provider", name, FALSE, 0)
            /\ UNCHANGED <<priority_order, http_thread>>
       ELSE /\ priority_order' = IF Contains(priority_order, name)
                                 THEN Remove(priority_order, name)
                                 ELSE priority_order
            /\ http_thread' = [pc |-> "removed", name |-> name]
            /\ ret' = ret
    /\ UNCHANGED <<providers, user_preferences, is_healthy, error_count,
                   last_error, default_model, available_models, limits, usage,
                   now, failing, calls, recorded>>

ThreadSetActiveInsert ==
    /\ http_thread.pc = "removed"
    /\ priority_order' = <<http_thread.name>> \o priority_order
    /\ http_thread' = IdleThread
    /\ ret' = Returned("set_active_provider", http_thread.name, TRUE, 0)
    /\ UNCHANGED <<providers, user_preferences, is_healthy, error_count,
                   last_error, default_model, available_models, limits, usage,
                   now, failing, calls, recorded>>

NextThreads ==
    \/ \E p \in Names : ThreadSetActiveRemove(p)
    \/ ThreadSetActiveInsert
    \/ GetProvider(NoUser)
    \/ \E c \in CallIds : StartGenerate(c, NoUser, {})
    \/ \E c \in CallIds : GenerateReturns(c, 0)
    \/ \E c \in CallIds : ReturnToCaller(c)

SpecThreads == Init /\ [][NextThreads]_vars

(***************************************************************************)
(* Properties of the failover loops (specification Spec).                  *)
(***************************************************************************)
Done(c) == calls[c].pc = "done"

RegisteredNames == Range(providers)

LastOf(s) == s[Len(s)]

\* C1: whenever at least one registered backend is non-failing, a
\* generate_with_failover call made in any state left by earlier requests
\* returns a Response produced by a non-failing backend.  Calls in which the
\* quota gate rejected a candidate are set aside: only the health-based
\* skipping is under test.
C1_FailoverReturnsResponse ==
    \A c \in CallIds :
        (/\ Done(c)
         /\ calls[c].kind = "generate"
         /\ RegisteredNames \ failing # {}
         /\ Len(calls[c].called) = Len(calls[c].tried))
        => /\ calls[c].outcome.type = "response"
           /\ calls[c].outcome.provider \in RegisteredNames \ failing

\* C2: when the generate call of every registered backend fails,
\* generate_with_failover raises AllProvidersFailedError, and the error it
\* carries is the one raised by the last backend called in this request
\* (no error at all when no backend was called).
C2_AllFailCarriesLastError ==
    \A c \in CallIds :
        (Done(c) /\ calls[c].kind = "generate" /\ failing = RegisteredNames)
        => /\ calls[c].outcome.type = "AllProvidersFailedError"
           /\ calls[c].outcome.error =
                 IF calls[c].raised = <<>> THEN NoError
                 ELSE LastOf(calls[c].raised)
           /\ calls[c].raised # <<>> =>
                 calls[c].outcome.error.provider = LastOf(calls[c].called)

C2_Witness ==
    \E c \in CallIds :
        /\ Done(c)
        /\ calls[c].kind = "generate"
        /\ failing = RegisteredNames
        /\ Len(calls[c].raised) >= 2
        /\ calls[c].outcome.type = "AllProvidersFailedError"
        /\ calls[c].outcome.error = LastOf(calls[c].raised)
        /\ calls[c].raised[1] # LastOf(calls[c].raised)

\* C3: a failover call raises AllProvidersFailedError only after every
\* registered backend has been tried in that call (called and failed, or
\* rejected by the quota gate), healthy or not.
C3_AllTriedBeforeAllFailed ==
    \A c \in CallIds :
        (Done(c) /\ calls[c].outcome.type = "AllProvidersFailedError")
        => RegisteredNames \subseteq Range(calls[c].tried)

\* C4: ordinary traffic alone recovers unhealthy backends: the system never
\* reaches a state in which all registered backends are unhealthy and a
\* request of any caller would end without trying a single backend (such a
\* request changes nothing, so every later request would do the same).
WouldTryNothing(uid) ==
    RunLoop(GetProviderOrder(uid), 1, <<>>, is_healthy, usage).tried = <<>>

C4_NeverStuckUnhealthy ==
    ~(/\ \A p \in RegisteredNames : ~is_healthy[p]
      /\ \A uid \in Users \cup {NoUser} : WouldTryNothing(uid))

\* C5: in stream_with_failover, once a chunk of one candidate has been
\* yielded, no chunk of any other backend is yielded in the same call.
C5_StreamCommitsToCandidate ==
    \A c \in CallIds : Cardinality(Range(calls[c].yielded)) <= 1

\* C6: however a backend call fails, a failover call never ends with that
\* backend's own error: generate_with_failover ends with a Response or an
\* AllProvidersFailedError, stream_with_failover with the end of the stream
\* or an AllProvidersFailedError.
C6_NoRawBackendError ==
    \A c \in CallIds :
        Done(c) =>
            /\ calls[c].outcome.type # "BackendError"
            /\ calls[c].kind = "generate" =>
                  calls[c].outcome.type \in {"response", "AllProvidersFailedError"}
            /\ calls[c].kind = "stream" =>
                  calls[c].outcome.type \in {"stream_end", "AllProvidersFailedError"}

C6_Witness ==
    \E c \in CallIds :
        /\ Done(c)
        /\ calls[c].kind = "stream"
        /\ Len(calls[c].raised) >= 1
        /\ calls[c].raised[1].kind = "unknown"
        /\ calls[c].outcome.type = "stream_end"

(***************************************************************************)
(* Properties of get_provider (specification SpecSelect).                  *)
(***************************************************************************)
HealthyNames == {p \in RegisteredNames : is_healthy[p]}

\* At or above the proactive threshold, read off the reference window.
Flagged(p) ==
    \/ /\ limits[p].requests_per_minute > 0
       /\ RecentRequests(p) * ThresholdDen
             >= ThresholdNum * limits[p].requests_per_minute
    \/ /\ limits[p].tokens_per_minute > 0
       /\ RecentTokens(p) * ThresholdDen
             >= ThresholdNum * limits[p].tokens_per_minute

Pos(s, x) == CHOOSE i \in 1..Len(s) : s[i] = x

FirstOf(S, s, x) == x \in S /\ \A q \in S : Pos(s, x) <= Pos(s, q)

\* The selection made when no preference applies.
DefaultSelection(x) ==
    LET U == {p \in HealthyNames : ~Flagged(p)} IN
    /\ (x = None) <=> (HealthyNames = {})
    /\ U # {} => FirstOf(U, priority_order, x)
    /\ (U = {} /\ HealthyNames # {}) => FirstOf(HealthyNames, providers, x)

\* C7 as claimed: with no caller preference get_provider() returns the first
\* backend in priority order that is healthy, and none iff all registered
\* backends are unhealthy, whatever the quota usage.
C7_FirstHealthyInPriority ==
    (ret.op = "get_provider" /\ ret.arg = NoUser)
    => /\ (ret.val = None) <=> (HealthyNames = {})
       /\ HealthyNames # {} => FirstOf(HealthyNames, priority_order, ret.val)

\* C7 amended: with no caller preference get_provider() returns the first
\* backend in priority order that is healthy and below the proactive quota
\* threshold; if every healthy backend is at or above the threshold, the
\* first healthy backend in registration order; none iff all registered
\* backends are unhealthy.
C7_FirstHealthyBelowThreshold ==
    (ret.op = "get_provider" /\ ret.arg = NoUser) => DefaultSelection(ret.val)

C7_Witness ==
    /\ ret.op = "get_provider"
    /\ ret.arg = NoUser
    /\ priority_order[1] \in HealthyNames
    /\ Flagged(priority_order[1])
    /\ ret.val \in HealthyNames \ {priority_order[1]}
    /\ ~Flagged(ret.val)

\* C8 as claimed: while caller c prefers b, get_provider(c) returns b as long
\* as b is healthy, and a different, healthy backend once b is unhealthy.
C8_PreferenceWhileHealthy ==
    (ret.op = "get_provider" /\ ret.arg \in DOMAIN user_preferences)
    => LET b == user_preferences[ret.arg] IN
       /\ is_healthy[b] => ret.val = b
       /\ ~is_healthy[b] => (ret.val # b /\ ret.val \in HealthyNames)

\* C8 amended: while caller c prefers b, get_provider(c) returns b, whatever
\* the priority order, as long as b is healthy and below the proactive quota
\* threshold; once b is unhealthy a different, healthy backend is returned if
\* any registered backend is healthy, and none otherwise.
C8_PreferenceWhileUsable ==
    (ret.op = "get_provider" /\ ret.arg \in DOMAIN user_preferences)
    => LET b == user_preferences[ret.arg] IN
       /\ (is_healthy[b] /\ ~Flagged(b)) => ret.val = b
       /\ ~is_healthy[b] =>
             /\ ret.val # b
             /\ HealthyNames # {} => ret.val \in HealthyNames
             /\ HealthyNames = {} => ret.val = None

C8_Witness ==
    /\ ret.op = "get_provider"
    /\ ret.arg \in DOMAIN user_preferences
    /\ ret.val = user_preferences[ret.arg]
    /\ ret.val # priority_order[1]
    /\ priority_order[1] \in HealthyNames
    /\ ~Flagged(priority_order[1])

(***************************************************************************)
(* Properties of the limiter (specifications SpecGated and SpecLimiter).   *)
(***************************************************************************)
Fresh(op) == ret.op = op /\ ret.at = now

\* C9: with requestsPerMinute = N >= 1 and requests recorded only after
\* can_request allowed them, no more than N requests are ever recorded
\* within 60 seconds, and can_request answers true exactly while fewer than N
\* are: true for calls 1..N of a window, false from call N+1 on.
C9_GateClosesAtLimit ==
    \A p \in Names :
        limits[p].requests_per_minute >= 1 =>
            /\ RecentRequests(p) <= limits[p].requests_per_minute
            /\ (Fresh("can_request") /\ ret.arg = p) =>
                  ret.val = (RecentRequests(p) < limits[p].requests_per_minute)

C9_Witness ==
    /\ Fresh("can_request")
    /\ ret.val = FALSE
    /\ limits[ret.arg].requests_per_minute = 3
    /\ RecentRequests(ret.arg) = 3

\* C10: every query of the limiter counts exactly the requests and tokens
\* recorded less than 60 seconds before the query.
C10_SlidingWindowExact ==
    /\ Fresh("can_request") =>
          ret.val = (RecentRequests(ret.arg)
                        < limits[ret.arg].requests_per_minute)
    /\ Fresh("can_request_tokens") =>
          ret.val = (/\ RecentRequests(ret.arg[1])
                           < limits[ret.arg[1]].requests_per_minute
                     /\ RecentTokens(ret.arg[1]) + ret.arg[2]
                           <= limits[ret.arg[1]].tokens_per_minute)
    /\ Fresh("get_current_usage") =>
          ret.val = [requests |-> RecentRequests(ret.arg),
                     tokens |-> RecentTokens(ret.arg)]
    /\ Fresh("get_usage_percentage") =>
          /\ limits[ret.arg].requests_per_minute > 0 =>
                ret.val.rpm = <<RecentRequests(ret.arg),
                                limits[ret.arg].requests_per_minute>>
          /\ limits[ret.arg].tokens_per_minute > 0 =>
                ret.val.tpm = <<RecentTokens(ret.arg),
                                limits[ret.arg].tokens_per_minute>>
    /\ Fresh("should_failover") => ret.val = Flagged(ret.arg)

\* A backend whose window was full is allowed again: the prune of this
\* can_request dropped as many requests as the limit allows.
C10_Witness ==
    /\ Fresh("can_request")
    /\ ret.val = TRUE
    /\ limits[ret.arg].requests_per_minute = 2
    /\ ret.pruned = 2

\* C11: a zero limit means unlimited in that dimension: with
\* requests_per_minute = 0 can_request answers true whatever is recorded, and
\* with tokens_per_minute = 0 can_request_tokens answers true whenever the
\* request count allows the request.
C11_ZeroLimitUnlimited ==
    /\ (Fresh("can_request") /\ limits[ret.arg].requests_per_minute = 0)
          => ret.val = TRUE
    /\ (/\ Fresh("can_request_tokens")
        /\ limits[ret.arg[1]].tokens_per_minute = 0
        /\ \/ limits[ret.arg[1]].requests_per_minute = 0
           \/ RecentRequests(ret.arg[1]) < limits[ret.arg[1]].requests_per_minute)
          => ret.val = TRUE

(***************************************************************************)
(* Properties of should_failover (specification SpecThreshold).            *)
(***************************************************************************)
\* The fractions get_usage_percentage stands for, read off the reference
\* window: count / limit, and 0 for a dimension without a limit.
RequestFraction(p) ==
    IF limits[p].requests_per_minute > 0
    THEN <<RecentRequests(p), limits[p].requests_per_minute>>
    ELSE <<0, 1>>

TokenFraction(p) ==
    IF limits[p].tokens_per_minute > 0
    THEN <<RecentTokens(p), limits[p].tokens_per_minute>>
    ELSE <<0, 1>>

Reaches(frac, th) == frac[1] * th[2] >= th[1] * frac[2]

\* C12: should_failover(b, threshold) is true iff the request fraction or the
\* token fraction of b in the current window is >= threshold; with the
\* default threshold it is true iff usage has reached 80% of a configured
\* limit.
C12_FailoverIffFractionAtThreshold ==
    /\ Fresh("should_failover_with") =>
          ret.val = (\/ Reaches(RequestFraction(ret.arg[1]), ret.arg[2])
                     \/ Reaches(TokenFraction(ret.arg[1]), ret.arg[2]))
    /\ Fresh("should_failover") =>
          ret.val = (\/ Reaches(RequestFraction(ret.arg), <<4, 5>>)
                     \/ Reaches(TokenFraction(ret.arg), <<4, 5>>))

\* Token usage exactly at 80% of the limit, request usage below it.
C12_Witness ==
    /\ Fresh("should_failover")
    /\ ret.val = TRUE
    /\ limits[ret.arg].tokens_per_minute = 5
    /\ RecentTokens(ret.arg) = 4
    /\ ~Reaches(RequestFraction(ret.arg), <<4, 5>>)

(***************************************************************************)
(* Usage accounting (specification SpecLimiter).                           *)
(***************************************************************************)
\* C13: the tracked usage is exact after every record_request and at any
\* later moment: what get_current_usage and get_usage_percentage report for
\* a backend is the number n of requests recorded in the last 60 seconds and
\* the sum t1+...+tn of their token counts (over tokens_per_minute for the
\* token fraction).
C13_UsageTrackedExactly ==
    \A p \in LimiterNames :
        /\ CurrentUsage(usage, p, now) =
              [requests |-> RecentRequests(p), tokens |-> RecentTokens(p)]
        /\ limits[p].tokens_per_minute > 0 =>
              UsagePercentage(usage, p, now).tpm =
                 <<RecentTokens(p), limits[p].tokens_per_minute>>
        /\ limits[p].requests_per_minute > 0 =>
              UsagePercentage(usage, p, now).rpm =
                 <<RecentRequests(p), limits[p].requests_per_minute>>

\* Two requests with tokens 1 and 2 recorded at different moments of one
\* window: count 2, total 3.
C13_Witness ==
    /\ Fresh("record_request")
    /\ Len(recorded[ret.arg[1]]) = 2
    /\ recorded[ret.arg[1]][1][2] = 1
    /\ recorded[ret.arg[1]][2][2] = 2
    /\ recorded[ret.arg[1]][1][1] < recorded[ret.arg[1]][2][1]
    /\ CurrentUsage(usage, ret.arg[1], now) = [requests |-> 2, tokens |-> 3]

(***************************************************************************)
(* Quota and bookkeeping properties of the failover loops (Spec).          *)
(***************************************************************************)
InCall(cl) == cl.pc \in {"await_generate", "streaming"}

\* This step of call c invokes generate / stream of backend p.
Sends(c, p) ==
    /\ InCall(calls'[c])
    /\ calls'[c].current = p
    /\ ~InCall(calls[c]) \/ calls[c].current # p

\* C14: a failover call does not send a request to a backend that is at or
\* above the 80% proactive threshold while another registered backend is
\* healthy and below the threshold.
C14_AvoidsBackendNearQuota ==
    [][\A c \in CallIds, p \in Names :
          Sends(c, p) =>
             ~(/\ Flagged(p)
               /\ \E q \in RegisteredNames \ {p} :
                     is_healthy'[q] /\ ~Flagged(q))]_vars

(***************************************************************************)
(* The default priority order (specification SpecSelect).                  *)
(***************************************************************************)
NoDuplicates(s) == \A i, j \in 1..Len(s) : i # j => s[i] # s[j]

\* C15 as claimed: in every reachable state the default priority order is a
\* permutation of the registered backend names.
C15_PriorityIsPermutation ==
    /\ NoDuplicates(priority_order)
    /\ Range(priority_order) = RegisteredNames

\* C15 amended: in every reachable state the default priority order lists
\* every registered backend exactly once and no name twice; the names in it
\* that are not registered are names of configured backends.
C15_PriorityCoversRegistered ==
    /\ NoDuplicates(priority_order)
    /\ RegisteredNames \subseteq Range(priority_order)
    /\ Range(priority_order) \subseteq DOMAIN limits

\* A promotion that changed the order while a configured backend is not
\* registered.
C15_Witness ==
    /\ ret.op = "set_active_provider"
    /\ ret.val = TRUE
    /\ priority_order[1] = ret.arg
    /\ priority_order # RegistrationOrder
    /\ Range(priority_order) \ RegisteredNames # {}

(***************************************************************************)
(* Order of the calls within one failover call (specification Spec).       *)
(***************************************************************************)
\* The backends whose generate / stream call c has invoked so far, in order.
Invoked(cl) == cl.called \o (IF InCall(cl) THEN <<cl.current>> ELSE <<>>)

\* The order the spec describes for caller uid.
PreferenceFirst(uid) ==
    IF uid \in DOMAIN user_preferences
    THEN <<user_preferences[uid]>>
            \o SelectSeq(priority_order, LAMBDA x : x # user_preferences[uid])
    ELSE priority_order

\* C16: within one failover call each backend is called at most once, the
\* backends are called in the order of the computed order (the called
\* sequence is a subsequence of it), and the computed order is the default
\* priority order with the caller's preference, if any, moved to the front.
C16_CalledInComputedOrder ==
    \A c \in CallIds :
        calls[c].pc # "idle" =>
            LET cl == calls[c]
                inv == Invoked(cl)
            IN  /\ cl.order = PreferenceFirst(cl.user)
                /\ NoDuplicates(inv)
                /\ Range(inv) \subseteq Range(cl.order)
                /\ \A i, j \in 1..Len(inv) :
                      i < j => Pos(cl.order, inv[i]) < Pos(cl.order, inv[j])

\* The preferred backend, not first in the default order, is called first
\* and fails; the call goes on with the default order.
C16_Witness ==
    \E c \in CallIds :
        /\ Done(c)
        /\ calls[c].user \in DOMAIN user_preferences
        /\ user_preferences[calls[c].user] = "ollama_local"
        /\ priority_order[1] = "groq"
        /\ calls[c].called = <<"ollama_local", "groq">>
        /\ calls[c].outcome.type = "response"

(***************************************************************************)
(* Health bookkeeping (specification SpecHealth).                          *)
(***************************************************************************)
\* In this step a generate / stream call to backend p ended.
CallEnded(p) ==
    \E c \in CallIds :
        /\ InCall(calls[c])
        /\ calls[c].current = p
        /\ Len(calls'[c].called) = Len(calls[c].called) + 1

CallSucceeded(p) ==
    /\ CallEnded(p)
    /\ \A c \in CallIds : calls'[c].raised = calls[c].raised

CallRaised(p) ==
    /\ CallEnded(p)
    /\ \E c \in CallIds : calls'[c].raised # calls[c].raised

\* This step is a health check of backend p with outcome ok.
HealthChecked(p, ok) ==
    /\ calls' = calls
    /\ now' = now
    /\ ret'.op = "health_check"
    /\ ret'.arg = p
    /\ ret'.val = ok

HealthRecord(p) == <<is_healthy[p], error_count[p], last_error[p]>>

\* C17: the health record of a backend changes only as the outcome of a
\* call to it: a successful generate, stream or health check leaves it
\* healthy with error count 0 and no last error, a failed call leaves it
\* unhealthy with the error message recorded, and no other step (the clock,
\* a request that skips the backend) changes it.
C17_HealthFollowsCallOutcome ==
    [][\A p \in RegisteredNames :
          /\ (CallSucceeded(p) \/ HealthChecked(p, TRUE)) =>
                /\ is_healthy'[p]
                /\ error_count'[p] = 0
                /\ last_error'[p] = None
          /\ CallRaised(p) =>
                /\ ~is_healthy'[p]
                /\ \E k \in ErrorKinds : last_error'[p] = k
          /\ HealthChecked(p, FALSE) =>
                /\ ~is_healthy'[p]
                /\ last_error'[p] = "health_check"
          /\ ~(\/ CallEnded(p)
               \/ HealthChecked(p, TRUE)
               \/ HealthChecked(p, FALSE)) =>
                HealthRecord(p)' = HealthRecord(p)]_vars

\* A request served by ollama_local a minute or more into the run, after
\* it skipped groq, which is still unhealthy with its error on record.
C17_Witness ==
    \E c \in CallIds :
        /\ Done(c)
        /\ calls[c].called = <<"ollama_local">>
        /\ calls[c].outcome.type \in {"response", "stream_end"}
        /\ now >= Window
        /\ ~is_healthy["groq"]
        /\ last_error["groq"] \in ErrorKinds
        /\ is_healthy["ollama_local"]
        /\ error_count["ollama_local"] = 0

(***************************************************************************)
(* What the failover calls record (specification SpecHealth).              *)
(***************************************************************************)
\* The window of p as a query at time n sees it: expired entries gone.
Effective(u, p, n) == WindowOf(CleanWindow(u, p, n), p)

\* A window with one more request, made at time n with the given tokens.
WithRequest(w, tokens, n) ==
    [requests |-> Append(w.requests, n),
     tokens   |-> IF tokens > 0 THEN Append(w.tokens, <<n, tokens>>)
                  ELSE w.tokens]

\* C18: of the steps of a generate_with_failover call only the one that
\* returns the Response records anything: exactly one request, with that
\* response's tokens_used, in the window of the backend that produced it.
\* The steps in which candidates fail or are skipped leave every window as
\* it was, and the returning step leaves every other backend's window as it
\* was.
C18_GenerateRecordsOnce ==
    [][\A c \in CallIds :
          (calls'[c] # calls[c] /\ calls'[c].kind = "generate") =>
             \A q \in Names :
                Effective(usage', q, now) =
                   IF /\ calls'[c].outcome.type = "response"
                      /\ calls'[c].outcome.provider = q
                   THEN WithRequest(Effective(usage, q, now),
                                    calls'[c].outcome.tokens, now)
                   ELSE Effective(usage, q, now)]_vars

\* groq failed, ollama_local answered with 2 tokens: one request with 2
\* tokens in the window of ollama_local, nothing in the window of groq.
C18_Witness ==
    \E c \in CallIds :
        /\ Done(c)
        /\ calls[c].kind = "generate"
        /\ calls[c].called = <<"groq", "ollama_local">>
        /\ calls[c].outcome.type = "response"
        /\ calls[c].outcome.tokens = 2
        /\ now > 0
        /\ usage["ollama_local"] = [requests |-> <<now>>, tokens |-> <<<<now, 2>>>>]
        /\ usage["groq"].requests = <<>>

\* The backends whose call failed in this failover call.
FailedIn(cl) == {cl.raised[i].provider : i \in 1..Len(cl.raised)}

\* C19: stream_with_failover records usage only for the candidate whose
\* stream succeeds: a candidate whose stream call failed has its window as
\* it was before the call, and a call that ends successfully has added
\* exactly one zero-token request, to the window of the serving backend.
C19_StreamRecordsOnlyOnSuccess ==
    \A c \in CallIds :
        (calls[c].kind = "stream" /\ calls[c].pc # "idle") =>
            /\ \A p \in FailedIn(calls[c]) : usage[p] = calls[c].before[p]
            /\ calls[c].outcome.type = "stream_end" =>
                  \A q \in Names :
                     usage[q] =
                        IF q = calls[c].outcome.provider
                        THEN WithRequest(calls[c].before[q], 0, now)
                        ELSE calls[c].before[q]

(***************************************************************************)
(* Concurrent requests (specification SpecRace).                           *)
(***************************************************************************)
\* C20: can_request and record_request of one call are separated by the
\* await on the backend, so concurrent calls can pass the gate of the same
\* backend before any of them records: the requests recorded within 60
\* seconds can exceed requests_per_minute, by at most one request for each
\* further call in flight.
C20_RaceOvershootBounded ==
    \A p \in Names :
        /\ RecentRequests(p)
              <= limits[p].requests_per_minute
                    + Cardinality(ConcurrentCallIds) - 1
        /\ Len(Effective(usage, p, now).requests) = RecentRequests(p)

\* More requests recorded for a backend within 60 seconds than its
\* requests_per_minute.
C20_Witness ==
    \E p \in RegisteredNames :
        /\ limits[p].requests_per_minute >= 1
        /\ RecentRequests(p) > limits[p].requests_per_minute
        /\ Len(Effective(usage, p, now).requests)
              > limits[p].requests_per_minute

(***************************************************************************)
(* get_wait_time (specification SpecWait).                                 *)
(***************************************************************************)
\* The time at which the oldest request still inside the window was made.
OldestRecent(p) == recorded[p][1][1]

\* C21: get_wait_time answers for the requests inside the 60-second window
\* only: it returns the time until the oldest of them ages out, and 0
\* exactly when none lies inside the window, whether or not older, expired
\* entries are still stored.
C21_WaitTimeOfOldestInWindow ==
    Fresh("get_wait_time") =>
        /\ RecentRequests(ret.arg) = 0 => ret.val = 0
        /\ RecentRequests(ret.arg) > 0 =>
              ret.val = OldestRecent(ret.arg) + Window - now

(***************************************************************************)
(* Administrative commands (specification SpecAdmin).                      *)
(***************************************************************************)
Without(s, x) == SelectSeq(s, LAMBDA y : y # x)

\* C22: set_active_provider(name) for a registered name returns true and
\* makes name the first element of the priority order and the active
\* backend, every other name staying exactly once and in its previous
\* relative order; for an unregistered name it returns false and leaves the
\* priority order unchanged.
C22_SetActiveMovesToFront ==
    [][ret'.op = "set_active_provider" =>
          IF Registered(ret'.arg)
          THEN /\ ret'.val = TRUE
               /\ priority_order'[1] = ret'.arg
               /\ GetActiveProviderVal' = ret'.arg
               /\ NoDuplicates(priority_order')
               /\ Without(priority_order', ret'.arg)
                     = Without(priority_order, ret'.arg)
          ELSE /\ ret'.val = FALSE
               /\ priority_order' = priority_order]_vars

\* The last name of the configured order has been promoted.
C22_Witness ==
    /\ ret.op = "set_active_provider"
    /\ ret.arg = "ollama_local"
    /\ ret.val = TRUE
    /\ priority_order = <<"ollama_local", "groq", "ollama_cloud">>
    /\ GetActiveProviderVal = "ollama_local"

\* C23: set_user_preference(c, name) with an unregistered name returns
\* false and leaves every caller's preference, c's included, as it was;
\* clear_user_preference(c) removes c's entry only, and changes nothing when
\* c has none.
C23_PreferenceCommands ==
    [][/\ (ret'.op = "set_user_preference" /\ ~Registered(ret'.arg[2])) =>
             /\ ret'.val = FALSE
             /\ user_preferences' = user_preferences
       /\ ret'.op = "clear_user_preference" =>
             /\ DOMAIN user_preferences'
                   = (DOMAIN user_preferences) \ {ret'.arg}
             /\ \A c \in DOMAIN user_preferences' :
                   user_preferences'[c] = user_preferences[c]
             /\ ret'.arg \notin DOMAIN user_preferences =>
                   user_preferences' = user_preferences]_vars

\* An unregistered name was refused while both callers have a preference.
C23_Witness ==
    /\ ret.op = "set_user_preference"
    /\ ret.val = FALSE
    /\ ~Registered(ret.arg[2])
    /\ DOMAIN user_preferences = Callers
    /\ user_preferences[1] # user_preferences[2]

(***************************************************************************)
(* Model selection (specification SpecModels).                             *)
(***************************************************************************)
\* C24: set_model and set_provider_model return true and make the model the
\* backend's current model only if it is in the backend's currently known
\* model list; for an unknown model or an unregistered backend they return
\* false and the current model of every backend stays as it was.
C24_SetModelOnlyIfKnown ==
    [][ret'.op \in {"set_model", "set_provider_model"} =>
          LET p == ret'.arg[1]
              m == ret'.arg[2]
          IN  IF Registered(p) /\ m \in available_models[p]
              THEN /\ ret'.val = TRUE
                   /\ default_model' = [default_model EXCEPT ![p] = m]
              ELSE /\ ret'.val = FALSE
                   /\ default_model' = default_model]_vars

\* A model the local backend only knows since a health check discovered it
\* has been selected; a model of the configured list is no longer known.
C24_Witness ==
    /\ ret.op = "set_provider_model"
    /\ ret.arg = <<"ollama_local", "m3">>
    /\ ret.val = TRUE
    /\ default_model["ollama_local"] = "m3"
    /\ "m1" \notin available_models["ollama_local"]

(***************************************************************************)
(* Cancelled streams (specification SpecCancel).                           *)
(***************************************************************************)
\* C25: when the caller cancels a stream_with_failover call, nothing is
\* rolled back and nothing else is started: the chunks already yielded stay
\* delivered, the request recorded for the serving backend stays in its
\* window, no backend's health state changes, and the call ends without
\* trying a further backend.
C25_CancelKeepsBookkeeping ==
    [][\A c \in CallIds :
          (calls[c].pc = "streaming" /\ ret'.op = "aclose" /\ ret'.arg = c) =>
              LET p == calls[c].current IN
              /\ calls'[c].pc = "done"
              /\ calls'[c].yielded = calls[c].yielded
              /\ calls'[c].tried = calls[c].tried
              /\ calls'[c].called = calls[c].called
              /\ usage' = usage
              /\ usage'[p] = WithRequest(calls[c].before[p], 0, now)
              /\ is_healthy' = is_healthy
              /\ error_count' = error_count
              /\ last_error' = last_error]_vars

\* A stream served by the first backend was cancelled after two chunks, with
\* two registered backends still untried.
C25_Witness ==
    /\ ret.op = "aclose"
    /\ calls[1].outcome.type = "cancelled"
    /\ calls[1].outcome.provider = "groq"
    /\ calls[1].yielded = <<"groq", "groq">>
    /\ calls[1].tried = <<"groq">>
    /\ Len(providers) = 3
    /\ Len(usage["groq"].requests) = 1

(***************************************************************************)
(* Unhealthy candidates in the failover loops (specification Spec).        *)
(***************************************************************************)
\* C26: in a failover call, a backend that is unhealthy when it is considered
\* is called only if every other registered backend has already been tried
\* in that call (called, or rejected by the quota gate); while another
\* registered backend is untried, an unhealthy candidate is not called.
C26_UnhealthyCalledLast ==
    [][\A c \in CallIds, p \in Names :
          (Sends(c, p) /\ ~is_healthy'[p]) =>
              RegisteredNames \ {p} \subseteq Range(calls'[c].tried)]_vars

\* An unhealthy backend is being called as the last of three candidates: one
\* of the other two was called and failed, the other was rejected by the
\* quota gate without being called.
C26_Witness ==
    \E c \in CallIds :
        LET cl == calls[c] IN
        /\ InCall(cl)
        /\ ~is_healthy[cl.current]
        /\ Len(providers) = 3
        /\ Len(cl.tried) = 3
        /\ Len(cl.called) = 1
        /\ cl.tried[3] = cl.current

(***************************************************************************)
(* The error count of a backend (specification SpecHealth).                *)
(***************************************************************************)
\* C27: each failed generate or stream call made through the manager raises
\* the backend's error count by exactly one, so that the count is the number
\* of failed calls since the last success, and the last error recorded is the
\* message the backend itself recorded for that failure.
C27_ErrorCountedOnce ==
    [][\A p \in RegisteredNames :
          CallRaised(p) =>
              /\ error_count'[p] = error_count[p] + 1
              /\ \E k \in ErrorKinds : last_error'[p] = <<"backend", k>>]_vars

(***************************************************************************)
(* get_provider and the proactive threshold (specification SpecSelect).    *)
(***************************************************************************)
\* C28: get_provider never returns an unhealthy backend; it returns a backend
\* at or above the proactive threshold only when every healthy registered
\* backend of the priority order is at or above it; and it returns some
\* backend whenever a registered backend is healthy.
C28_FlaggedOnlyAsLastResort ==
    ret.op = "get_provider" =>
        /\ ret.val # None => ret.val \in HealthyNames
        /\ (ret.val # None /\ Flagged(ret.val)) =>
              \A p \in HealthyNames \cap Range(priority_order) : Flagged(p)
        /\ HealthyNames # {} => ret.val # None

\* Two backends are healthy, both at the threshold, and the caller's
\* preferred one is not the one returned.
C28_Witness ==
    /\ ret.op = "get_provider"
    /\ ret.arg \in DOMAIN user_preferences
    /\ Cardinality(HealthyNames) >= 2
    /\ \A p \in HealthyNames : Flagged(p)
    /\ user_preferences[ret.arg] \in HealthyNames
    /\ ret.val \in HealthyNames
    /\ ret.val # user_preferences[ret.arg]

(***************************************************************************)
(* Concurrent streams (specification SpecStreamRace).                      *)
(***************************************************************************)
\* C29: stream_with_failover checks the quota and records the request with
\* no suspension point in between, so with concurrent stream calls only, the
\* requests recorded for a backend within 60 seconds never exceed its
\* requests_per_minute (>= 1).
C29_StreamsNeverOvershoot ==
    \A p \in Names :
        limits[p].requests_per_minute >= 1 =>
            /\ RecentRequests(p) <= limits[p].requests_per_minute
            /\ Len(Effective(usage, p, now).requests) = RecentRequests(p)

\* Two streams are in flight at once; the first holds the last request the
\* quota of its backend allowed, and the second, started while the first was
\* suspended, was rejected by that backend's gate and is served by the next.
C29_Witness ==
    /\ calls[1].pc = "streaming"
    /\ calls[2].pc = "streaming"
    /\ calls[1].current = "groq"
    /\ calls[2].current = "ollama_local"
    /\ calls[2].tried = <<"groq", "ollama_local">>
    /\ RecentRequests("groq") = limits["groq"].requests_per_minute
    /\ calls[1].chunks >= 1

(***************************************************************************)
(* set_active_provider on the HTTP thread (specification SpecThreads).     *)
(***************************************************************************)
\* This step is a get_provider call on the event loop.
SelectsProvider ==
    /\ ret'.op = "get_provider"
    /\ http_thread' = http_thread
    /\ calls' = calls

\* This step starts failover call c, which computes its candidate order.
ComputesOrder(c) == calls[c].pc = "idle" /\ calls'[c].pc # "idle"

WholeOrder(s) == NoDuplicates(s) /\ Range(s) = Names

\* C30: a promotion made by set_active_provider on the HTTP thread is never
\* observed half-done: the candidate order computed by a failover call and
\* the priority order read by get_provider contain each backend of the order
\* exactly once, never the order with the promoted name removed and not yet
\* re-inserted.
C30_PromotionNeverHalfDone ==
    [][/\ SelectsProvider => WholeOrder(priority_order)
       /\ \A c \in CallIds :
             ComputesOrder(c) =>
                 /\ WholeOrder(priority_order)
                 /\ WholeOrder(calls'[c].order)]_vars

====
